---- MODULE Spec2Model ----
(***************************************************************************)
(* The in-memory job lifecycle manager of backend/app.py: the job store    *)
(* (_jobs, an insertion-ordered dict), the idempotency index               *)
(* (_jobs_by_idempotency), the lock (_jobs_lock), the request handlers     *)
(* (health, create_job, list_jobs, get_job_status, cancel_job,             *)
(* get_job_result) and the background execution path (_process_job) with   *)
(* the retention pass (_cleanup_jobs) each of them runs first.             *)
(*                                                                         *)
(* Time is in whole seconds.  The wall clock advances in steps of          *)
(* TickSeconds; time.strftime("%Y-%m-%dT%H:%M:%SZ", time.gmtime()) is the  *)
(* clock read to the second, which a whole-second clock already is.        *)
(* A part of a handler that runs under the lock and that no other thread   *)
(* can observe before its first write to a record is one step; every       *)
(* further assignment to a field of a record is a step of its own, taken   *)
(* with the lock held.  list_jobs reads the fields of the records it       *)
(* answers with after it has released the lock: every such read of a field *)
(* that a writer may change is a step of its own, taken without the lock.  *)
(***************************************************************************)
EXTENDS Integers, Sequences, FiniteSets, TLC

\* ------------------------------------------------------------------ bounds

\* Number of job ids (uuid4 values) the model hands out.
MaxJobs == 3
\* The capacity cap; the program's value is 200 (app.py:122), scaled down so
\* that MaxJobs submissions overflow it.
JOBS_MAX_ITEMS == 2
\* Number of clock steps.
MaxTicks == 1
\* Number of submissions in the runs that follow the list requests.
ListMaxJobs == 2

\* ------------------------------------------------------- program constants

\* Optional[str] = None, and an unset timestamp.
None == "<None>"
NoTime == -1

JOBS_TTL_SECONDS == 1800
JOB_RUN_TIMEOUT_SECONDS == 8

\* One clock step (longer than the TTL, shorter than an hour), and the
\* wall-clock time at start (well after the epoch).
TickSeconds == JOBS_TTL_SECONDS + 1
StartTime == 48 * JOBS_TTL_SECONDS
\* The local time zones the process may run in: time.mktime reads a parsed
\* time as local time.  A zone is its UTC offset and, where it has one, its
\* change to summer time: dstFrom is the first local wall-clock time after
\* the change, from which on the offset is an hour more.  mktime reads a
\* wall-clock time that the change skips with the offset of before.
UtcOffsets == {0 - 3600, 0, 3600}
DstShift == 3600
Zones ==
    {[offset |-> o, dstFrom |-> NoTime] : o \in UtcOffsets}
        \cup {[offset |-> 0, dstFrom |-> StartTime + TickSeconds]}
\* Durations (seconds, time.perf_counter) an executor invocation may take:
\* the budget exactly, and more than the budget.
ElapsedChoices == {JOB_RUN_TIMEOUT_SECONDS, JOB_RUN_TIMEOUT_SECONDS + 1}
\* Idempotency keys a submission may carry: empty and non-empty.  A submission
\* without a key (None) takes the branch of the empty key at each of the three
\* tests of a key (app.py:191, 362, 384) and no answer shows the stored key,
\* so the empty key stands for both.
Keys == {"", "k1"}
\* What _run_detect may return, and str(exc) of what it may raise.
Payloads == {"r1"}
ExcMessages == {"", "invalid data URL"}
JobIds == 1..MaxJobs
\* Arguments of a list request: the limit (in and out of [1, 100]), and the
\* cursor as the query string carries it (absent, empty, decimal, negative,
\* not a number).
Limits == {0, 1, 101}
Cursors == {None, "", "0", "1", "-1", "not-a-number"}
TASK == "detect-objects"
CANCEL_MESSAGE == "job canceled by user"
TIMEOUT_MESSAGE == "job exceeded processing timeout"

VARIABLES
    now,        \* the wall clock (time.time())
    tz,         \* the local time zone
    jobs,       \* _jobs: the records in insertion order
    idx,        \* _jobs_by_idempotency
    nextId,     \* the next fresh job id
    lock,       \* _jobs_lock: who holds it
    bg,         \* per job id: the background task's position and locals
    req,        \* the request thread that is inside cancel_job's writes
    lst,        \* the request thread that is inside list_jobs' reads
    response    \* what the request handler that just returned answered

vars == <<now, tz, jobs, idx, nextId, lock, bg, req, lst, response>>

\* --------------------------------------------------------------- records

Terminal == {"done", "failed", "canceled", "timeout"}
Statuses == {"pending", "running"} \cup Terminal

JobRecord(id, created, key) ==
    [jobId |-> id, status |-> "pending", task |-> TASK, createdAt |-> created,
     startedAt |-> NoTime, finishedAt |-> NoTime, error |-> None,
     result |-> None, idempotencyKey |-> key]

\* Python truthiness of an Optional[str].
Truthy_AnyString(s) == s # None

Truthy(s) == s # None /\ s # ""

\* record.error or "<default>"
OrDefault(s, default) == IF Truthy(s) THEN s ELSE default

Ids(js) == {js[i].jobId : i \in 1..Len(js)}

\* _jobs.get(job_id), for an id the caller knows to be present.
Get(js, id) == js[CHOOSE i \in 1..Len(js) : js[i].jobId = id]

Pos(js, id) == CHOOSE i \in 1..Len(js) : js[i].jobId = id

\* _jobs.pop(job_id, None) for every id of a set.
PopAll(js, ids) == SelectSeq(js, LAMBDA r : r.jobId \notin ids)

FREE == [holder |-> "none", job |-> 0]
TaskHolds(j) == [holder |-> "task", job |-> j]
RequestHolds(j) == [holder |-> "request", job |-> j]

\* ------------------------------------------------------------- retention

\* The UTC offset mktime applies to a wall-clock time.
OffsetAt(value) ==
    IF tz.dstFrom # NoTime /\ value >= tz.dstFrom
    THEN tz.offset + DstShift ELSE tz.offset

_job_time_to_epoch(value) ==
    IF value = NoTime THEN 0 ELSE value - OffsetAt(value)

\* The records the TTL step removes.
Removable(js) ==
    {js[i].jobId : i \in {k \in 1..Len(js) :
        /\ js[k].status \in Terminal
        /\ js[k].finishedAt # NoTime
        /\ _job_time_to_epoch(js[k].finishedAt) # 0
        /\ (now - _job_time_to_epoch(js[k].finishedAt)) > JOBS_TTL_SECONDS}}

\* sorted(..., key=createdAt epoch): stable, ascending.
RECURSIVE InsertByCreated(_, _)
InsertByCreated(sorted, r) ==
    IF sorted = <<>> THEN <<r>>
    ELSE IF _job_time_to_epoch(r.createdAt)
              < _job_time_to_epoch(sorted[Len(sorted)].createdAt)
         THEN Append(InsertByCreated(SubSeq(sorted, 1, Len(sorted) - 1), r),
                     sorted[Len(sorted)])
         ELSE Append(sorted, r)

RECURSIVE SortedByCreated(_)
SortedByCreated(js) ==
    IF js = <<>> THEN <<>>
    ELSE InsertByCreated(SortedByCreated(SubSeq(js, 1, Len(js) - 1)), js[Len(js)])

\* Mutant of Overflow: capacity eviction removes nothing.
Overflow_None(js) == {}

\* The records capacity eviction removes from js.
Overflow(js) ==
    IF Len(js) > JOBS_MAX_ITEMS
    THEN LET ordered == SortedByCreated(js)
         IN  {ordered[i].jobId : i \in 1..(Len(js) - JOBS_MAX_ITEMS)}
    ELSE {}

\* _jobs after _cleanup_jobs(): the TTL step, then capacity eviction.
_cleanup_jobs ==
    LET afterTtl == PopAll(jobs, Removable(jobs))
    IN  PopAll(afterTtl, Overflow(afterTtl))

\* Mutant of RebuiltIndex: the index is cleared and not refilled.
RebuiltIndex_Cleared(js) == <<>>

\* _jobs_by_idempotency rebuilt over js: a later record overwrites an earlier.
RebuiltIndex(js) ==
    LET keyed == {i \in 1..Len(js) : Truthy(js[i].idempotencyKey)}
    IN  [k \in {js[i].idempotencyKey : i \in keyed} |->
            js[CHOOSE i \in keyed :
                  /\ js[i].idempotencyKey = k
                  /\ \A m \in keyed : js[m].idempotencyKey = k => m <= i].jobId]

\* ------------------------------------------------------------- responses

NoResponse ==
    [op |-> "none", http |-> 0, code |-> None, message |-> None, jobId |-> 0,
     key |-> None, status |-> None, task |-> None, createdAt |-> NoTime,
     startedAt |-> NoTime, finishedAt |-> NoTime, error |-> None,
     result |-> None, acceptedAt |-> NoTime,
     \* of list_jobs: the arguments it was called with, and its answer
     filter |-> None, offset |-> 0, limit |-> 0, items |-> <<>>,
     nextCursor |-> None,
     \* of health: its counts, and the configuration constants it carries
     jobsInMemory |-> 0, idempotencyKeysInMemory |-> 0, constants |-> {}]

ApiError(op, id, http, code, message) ==
    [NoResponse EXCEPT !.op = op, !.jobId = id, !.http = http, !.code = code,
                       !.message = message]

\* Mutant of JobNotFound: a missing record is answered as not completed.
JobNotFound_AsConflict(op, id) ==
    ApiError(op, id, 409, "job_not_completed", "job not completed")

\* The answer of a handler whose _jobs.get(job_id) found no record.
JobNotFound(op, id) == ApiError(op, id, 404, "job_not_found", "job not found")

_to_job_status_response(op, record) ==
    [NoResponse EXCEPT !.op = op, !.http = 200, !.jobId = record.jobId,
                       !.status = record.status, !.task = record.task,
                       !.createdAt = record.createdAt,
                       !.startedAt = record.startedAt,
                       !.finishedAt = record.finishedAt,
                       !.error = record.error]

JobCreateResponse(key, id, status, acceptedAt) ==
    [NoResponse EXCEPT !.op = "create_job", !.http = 200, !.key = key,
                       !.jobId = id, !.status = status,
                       !.acceptedAt = acceptedAt]

\* Mutant of JobResultResponse: the payload is left out of the answer.
JobResultResponse_NoPayload(record) ==
    [NoResponse EXCEPT !.op = "get_job_result", !.http = 200,
                       !.jobId = record.jobId]

JobResultResponse(record) ==
    [NoResponse EXCEPT !.op = "get_job_result", !.http = 200,
                       !.jobId = record.jobId, !.result = record.result]

\* ------------------------------------------------------- the list reader

\* records.sort(key=createdAt epoch, reverse=True): stable, descending, so
\* records of equal key keep their order.
RECURSIVE InsertByCreatedDesc(_, _)
InsertByCreatedDesc(sorted, r) ==
    IF sorted = <<>> THEN <<r>>
    ELSE IF _job_time_to_epoch(r.createdAt)
              > _job_time_to_epoch(sorted[Len(sorted)].createdAt)
         THEN Append(InsertByCreatedDesc(SubSeq(sorted, 1, Len(sorted) - 1), r),
                     sorted[Len(sorted)])
         ELSE Append(sorted, r)

RECURSIVE SortedByCreatedDesc(_)
SortedByCreatedDesc(js) ==
    IF js = <<>> THEN <<>>
    ELSE InsertByCreatedDesc(SortedByCreatedDesc(SubSeq(js, 1, Len(js) - 1)),
                             js[Len(js)])

\* The ids of a sequence of records, in order.
IdsInOrder(js) == [i \in 1..Len(js) |-> js[i].jobId]

\* Mutant of Slice: the page starts at the first record.
Slice_IgnoresOffset(records, offset, limit) ==
    SubSeq(records, 1, IF limit < Len(records) THEN limit ELSE Len(records))

\* records[offset : offset + limit]
Slice(records, offset, limit) ==
    IF offset >= Len(records) THEN <<>>
    ELSE SubSeq(records, offset + 1,
                IF offset + limit < Len(records) THEN offset + limit
                ELSE Len(records))

\* next_cursor
NextCursor(offset, limit, n) ==
    IF offset + limit < n THEN ToString(offset + limit) ELSE None

\* Mutant of InvalidLimit: the upper end of the range is not checked.
InvalidLimit_NoUpper(limit) == limit < 1

\* limit < 1 or limit > 100
InvalidLimit(limit) == limit < 1 \/ limit > 100

\* The decimal strings int() accepts, as far as the model's cursors go.
Ints == (0 - 1)..MaxJobs

\* int(cursor) raises ValueError.
IntRaises(cursor) == \A n \in Ints : ToString(n) # cursor

\* int(cursor), for a cursor it accepts.
IntOf(cursor) == CHOOSE n \in Ints : ToString(n) = cursor

\* The cursor is refused: int() raised, or the offset is negative.
InvalidCursor(cursor) ==
    Truthy(cursor) /\ (IntRaises(cursor) \/ IntOf(cursor) < 0)

\* offset
OffsetOf(cursor) == IF Truthy(cursor) THEN IntOf(cursor) ELSE 0

NoItem ==
    [jobId |-> 0, status |-> None, task |-> None, createdAt |-> NoTime,
     startedAt |-> NoTime, finishedAt |-> NoTime, error |-> None]

\* The list request thread: its position, its arguments, the list records it
\* works on (as ids, in order), the index of the record it reads next, the
\* records the filter has kept, the item it is building and the field it
\* reads next, the items built; and objs, the records of its list that have
\* left the store since, which it still holds and reads.
IdleList ==
    [pc |-> "idle", status |-> None, offset |-> 0, limit |-> 0,
     records |-> <<>>, i |-> 0, kept |-> <<>>, field |-> None,
     item |-> NoItem, items |-> <<>>, nextCursor |-> None,
     objs |-> [id \in JobIds |-> NoItem]]

\* The record object behind an id of the reader's list.
Obj(id) == IF id \in Ids(jobs) THEN Get(jobs, id) ELSE lst.objs[id]

\* The reader after a retention pass that leaves js in the store: it keeps
\* the objects of its list that the pass removed.
Retired(js) ==
    IF lst.pc = "idle" THEN lst
    ELSE [lst EXCEPT !.objs =
            [id \in JobIds |->
                IF id \in Ids(jobs) /\ id \notin Ids(js)
                   /\ \/ \E k \in lst.i..Len(lst.records) : lst.records[k] = id
                      \/ \E k \in 1..Len(lst.kept) : lst.kept[k] = id
                THEN Get(jobs, id) ELSE @[id]]]

\* page = records[offset : offset + limit], and next_cursor.
Paged(l, records) ==
    [l EXCEPT !.pc = "items",
              !.records = Slice(records, l.offset, l.limit),
              !.i = 1, !.kept = <<>>, !.field = "status",
              !.nextCursor = NextCursor(l.offset, l.limit, Len(records))]

\* The reader moves on when it has nothing left to read where it is.
Settled(l) ==
    LET f == IF l.pc = "filter" /\ l.i > Len(l.records)
             THEN Paged(l, l.kept) ELSE l
    IN  IF f.pc = "items" /\ f.i > Len(f.records)
        THEN [f EXCEPT !.pc = "return"] ELSE f

JobListResponse(l) ==
    [NoResponse EXCEPT !.op = "list_jobs", !.http = 200, !.filter = l.status,
                       !.offset = l.offset, !.limit = l.limit,
                       !.items = l.items, !.nextCursor = l.nextCursor]

\* ------------------------------------------------------------------ init

\* A background task: its position, and while it writes an outcome the
\* locals it writes from (what the executor did, and elapsed_s).
TaskAt(pc) == [pc |-> pc, kind |-> None, value |-> None, elapsed |-> 0]
IdleTask == TaskAt("idle")
IdleRequest == [pc |-> "idle", job |-> 0]

Init ==
    /\ now = StartTime
    /\ tz \in Zones
    /\ jobs = <<>>
    /\ idx = RebuiltIndex(<<>>)
    /\ nextId = 1
    /\ lock = FREE
    /\ bg = [j \in JobIds |-> IdleTask]
    /\ req = IdleRequest
    /\ lst = IdleList
    /\ response = NoResponse

\* ----------------------------------------------------------------- clock

Tick ==
    /\ lock = FREE
    /\ response = NoResponse
    /\ now < StartTime + MaxTicks * TickSeconds
    /\ now' = now + TickSeconds
    /\ response' = NoResponse
    /\ UNCHANGED <<tz, jobs, idx, nextId, lock, bg, req, lst>>

\* ---------------------------------------------------------------- submit

\* _jobs[job_id] = record, for the record create_job builds, js being what
\* its retention pass left.
Inserted(js, key) == Append(js, JobRecord(nextId, now, key))

\* Mutant of Registered: the key of a new record is not entered.
Registered_Never(ix, key) == ix

\* if payload.idempotencyKey: _jobs_by_idempotency[key] = job_id
Registered(ix, key) == IF Truthy(key) THEN (key :> nextId) @@ ix ELSE ix

\* Mutant of ExistingJobId: a record in a terminal state is not replayed.
ExistingJobId_NotTerminal(ix, js, key) ==
    IF Truthy(key) /\ key \in DOMAIN ix /\ ix[key] \in Ids(js)
       /\ Get(js, ix[key]).status \notin Terminal
    THEN ix[key] ELSE 0

\* Mutant of ExistingJobId: no submission is deduplicated.
ExistingJobId_Never(ix, js, key) == 0

\* The id of the live record an idempotent replay answers with, or 0.
ExistingJobId(ix, js, key) ==
    IF Truthy(key) /\ key \in DOMAIN ix /\ ix[key] \in Ids(js)
    THEN ix[key] ELSE 0

\* Mutant of ReplayAcceptedAt: a replay is stamped with the current time.
ReplayAcceptedAt_Now(existing) == now

\* acceptedAt of an idempotent replay.
ReplayAcceptedAt(existing) == existing.createdAt

create_job(key) ==
    /\ lock = FREE
    /\ response = NoResponse
    /\ LET js == _cleanup_jobs
           ix == RebuiltIndex(js)
           existing == ExistingJobId(ix, js, key)
       IN  IF existing # 0
           THEN /\ jobs' = js
                /\ idx' = ix
                /\ response' = JobCreateResponse(key, Get(js, existing).jobId,
                                                 Get(js, existing).status,
                                                 ReplayAcceptedAt(Get(js, existing)))
                /\ UNCHANGED <<nextId, bg>>
           ELSE /\ nextId <= MaxJobs
                /\ jobs' = Inserted(js, key)
                /\ idx' = Registered(ix, key)
                /\ nextId' = nextId + 1
                /\ bg' = [bg EXCEPT ![nextId].pc = "queued"]
                /\ response' = JobCreateResponse(key, nextId, "pending", now)
    /\ lst' = Retired(_cleanup_jobs)
    /\ UNCHANGED <<now, tz, lock, req>>

\* ------------------------------------------------- writes to one record

SetField(js, id, f, v) == [js EXCEPT ![Pos(js, id)] = [@ EXCEPT ![f] = v]]

\* Mutant of MarkStatus: the status is assigned to every record.
MarkStatus_All(js, id, status) ==
    [i \in 1..Len(js) |-> [js[i] EXCEPT !.status = status]]

\* _mark_job_finished: its three assignments, in order.
MarkStatus(js, id, status) == SetField(js, id, "status", status)
MarkError(js, id, error) == SetField(js, id, "error", error)
MarkFinishedAt(js, id) == SetField(js, id, "finishedAt", now)

\* ------------------------------------------------ the execution path

\* Mutant of StartSkips: the canceled check before the executor is dropped.
StartSkips_IgnoresCanceled(js, j) == j \notin Ids(js)

\* _process_job's exits before the executor is invoked.
StartSkips(js, j) == j \notin Ids(js) \/ Get(js, j).status = "canceled"

\* with _jobs_lock: _cleanup_jobs(); the exits; record.status = "running".
process_job_start(j) ==
    /\ bg[j].pc = "queued"
    /\ lock = FREE
    /\ response = NoResponse
    /\ LET js == _cleanup_jobs
       IN  /\ idx' = RebuiltIndex(js)
           /\ IF StartSkips(js, j)
              THEN /\ jobs' = js
                   /\ bg' = [bg EXCEPT ![j].pc = "finished"]
                   /\ lock' = FREE
              ELSE /\ jobs' = SetField(js, j, "status", "running")
                   /\ bg' = [bg EXCEPT ![j].pc = "stamp_started"]
                   /\ lock' = TaskHolds(j)
    /\ lst' = Retired(_cleanup_jobs)
    /\ response' = NoResponse
    /\ UNCHANGED <<now, tz, nextId, req>>

\* Mutant of LockAfterStamp: the executor is invoked inside the with block.
LockAfterStamp_Held(j) == TaskHolds(j)

\* The lock where the first with block of _process_job ends, before
\* _run_detect is called.
LockAfterStamp(j) == FREE

\* record.startedAt = strftime(...); the lock is released.
process_job_stamp_started(j) ==
    /\ bg[j].pc = "stamp_started"
    /\ lock = TaskHolds(j)
    /\ jobs' = SetField(jobs, j, "startedAt", now)
    /\ bg' = [bg EXCEPT ![j].pc = "executing"]
    /\ lock' = LockAfterStamp(j)
    /\ response' = NoResponse
    /\ UNCHANGED <<now, tz, idx, nextId, req, lst>>

\* Mutant of FinishSkips: the canceled check after the executor is dropped.
FinishSkips_IgnoresCanceled(js, j) == j \notin Ids(js)

\* The exits of both branches after the executor has returned.
FinishSkips(js, j) == j \notin Ids(js) \/ Get(js, j).status = "canceled"

\* elapsed_s > JOB_RUN_TIMEOUT_SECONDS
ExceedsTimeout(elapsed) == elapsed > JOB_RUN_TIMEOUT_SECONDS

\* Mutant of Classify: the elapsed time is not looked at.
Classify_IgnoresElapsed(kind, elapsed) ==
    IF kind = "raise" THEN "failed" ELSE "done"

\* The status the execution path records for an executor outcome: the try
\* branch measures the elapsed time, the except branch does not.
Classify(kind, elapsed) ==
    IF kind = "raise" THEN "failed"
    ELSE IF ExceedsTimeout(elapsed) THEN "timeout" ELSE "done"

\* Mutant of ClassifiedError: str(exc) is not recorded.
ClassifiedError_DropsMessage(kind, value, elapsed) ==
    IF kind = "return" /\ ExceedsTimeout(elapsed) THEN TIMEOUT_MESSAGE ELSE None

\* The error message that goes with a recorded status.
ClassifiedError(kind, value, elapsed) ==
    IF kind = "raise" THEN value
    ELSE IF ExceedsTimeout(elapsed) THEN TIMEOUT_MESSAGE ELSE None

\* _run_detect returns value (kind "return") or raises an exception whose
\* str() is value (kind "raise") after elapsed seconds; then, with the lock:
\* the exits, and the first assignment of the branch taken.
process_job_return(j, kind, value, elapsed) ==
    /\ bg[j].pc = "executing"
    /\ lock = FREE
    /\ response = NoResponse
    /\ IF FinishSkips(jobs, j)
       THEN /\ bg' = [bg EXCEPT ![j].pc = "finished"]
            /\ UNCHANGED <<jobs, lock>>
       ELSE /\ jobs' = MarkStatus(jobs, j, Classify(kind, elapsed))
            /\ lock' = TaskHolds(j)
            /\ bg' = [bg EXCEPT ![j] =
                 [pc |-> IF Classify(kind, elapsed) = "done"
                         THEN "done_finished" ELSE "mark_error",
                  kind |-> kind, value |-> value, elapsed |-> elapsed]]
    /\ response' = NoResponse
    /\ UNCHANGED <<now, tz, idx, nextId, req, lst>>

\* _mark_job_finished: record.error = error
process_job_mark_error(j) ==
    /\ bg[j].pc = "mark_error"
    /\ lock = TaskHolds(j)
    /\ jobs' = MarkError(jobs, j, ClassifiedError(bg[j].kind, bg[j].value,
                                                  bg[j].elapsed))
    /\ bg' = [bg EXCEPT ![j].pc = "mark_finished"]
    /\ response' = NoResponse
    /\ UNCHANGED <<now, tz, idx, nextId, lock, req, lst>>

\* _mark_job_finished: record.finishedAt = strftime(...); return.
process_job_mark_finished(j) ==
    /\ bg[j].pc = "mark_finished"
    /\ lock = TaskHolds(j)
    /\ jobs' = MarkFinishedAt(jobs, j)
    /\ bg' = [bg EXCEPT ![j] = TaskAt("finished")]
    /\ lock' = FREE
    /\ response' = NoResponse
    /\ UNCHANGED <<now, tz, idx, nextId, req, lst>>

\* record.finishedAt = strftime(...) of the done branch.
process_job_done_finished(j) ==
    /\ bg[j].pc = "done_finished"
    /\ lock = TaskHolds(j)
    /\ jobs' = SetField(jobs, j, "finishedAt", now)
    /\ bg' = [bg EXCEPT ![j].pc = "done_result"]
    /\ response' = NoResponse
    /\ UNCHANGED <<now, tz, idx, nextId, lock, req, lst>>

\* record.result = result; the lock is released.
process_job_done_result(j) ==
    /\ bg[j].pc = "done_result"
    /\ lock = TaskHolds(j)
    /\ jobs' = SetField(jobs, j, "result", bg[j].value)
    /\ bg' = [bg EXCEPT ![j] = TaskAt("finished")]
    /\ lock' = FREE
    /\ response' = NoResponse
    /\ UNCHANGED <<now, tz, idx, nextId, req, lst>>

_process_job(j) ==
    \/ process_job_start(j)
    \/ process_job_stamp_started(j)
    \/ \E elapsed \in ElapsedChoices :
          \/ \E value \in Payloads : process_job_return(j, "return", value, elapsed)
          \/ \E value \in ExcMessages : process_job_return(j, "raise", value, elapsed)
    \/ process_job_mark_error(j)
    \/ process_job_mark_finished(j)
    \/ process_job_done_finished(j)
    \/ process_job_done_result(j)

\* ------------------------------------------------------------- get status

get_job_status(j) ==
    /\ lock = FREE
    /\ response = NoResponse
    /\ LET js == _cleanup_jobs
       IN  /\ jobs' = js
           /\ idx' = RebuiltIndex(js)
           /\ response' =
                IF j \notin Ids(js)
                THEN JobNotFound("get_job_status", j)
                ELSE _to_job_status_response("get_job_status", Get(js, j))
    /\ lst' = Retired(_cleanup_jobs)
    /\ UNCHANGED <<now, tz, nextId, lock, bg, req>>

\* ------------------------------------------------------------- get result

\* Mutant of ResultErrorCode: the canceled branch is missing.
ResultErrorCode_NoCanceled(record) ==
    IF record.status = "failed" THEN "job_failed"
    ELSE IF record.status = "timeout" THEN "job_timeout"
    ELSE IF record.status # "done" \/ record.result = None THEN "job_not_completed"
    ELSE None

\* The error code get_job_result answers with for a record, None for none.
ResultErrorCode(record) ==
    IF record.status = "failed" THEN "job_failed"
    ELSE IF record.status = "timeout" THEN "job_timeout"
    ELSE IF record.status = "canceled" THEN "job_canceled"
    ELSE IF record.status # "done" \/ record.result = None THEN "job_not_completed"
    ELSE None

\* The message that goes with the error code.
ResultErrorMessage(record) ==
    IF record.status = "failed" THEN OrDefault(record.error, "job failed")
    ELSE IF record.status = "timeout" THEN OrDefault(record.error, "job timeout")
    ELSE IF record.status = "canceled" THEN OrDefault(record.error, "job canceled")
    ELSE "job not completed"

get_job_result(j) ==
    /\ lock = FREE
    /\ response = NoResponse
    /\ LET js == _cleanup_jobs
       IN  /\ jobs' = js
           /\ idx' = RebuiltIndex(js)
           /\ response' =
                IF j \notin Ids(js)
                THEN JobNotFound("get_job_result", j)
                ELSE LET record == Get(js, j)
                     IN  IF ResultErrorCode(record) # None
                         THEN ApiError("get_job_result", j, 409,
                                       ResultErrorCode(record),
                                       ResultErrorMessage(record))
                         ELSE JobResultResponse(record)
    /\ lst' = Retired(_cleanup_jobs)
    /\ UNCHANGED <<now, tz, nextId, lock, bg, req>>

\* ----------------------------------------------------------------- cancel

\* Mutant of NotCancelable: no record refuses a cancel.
NotCancelable_Never(record) == FALSE

\* Mutant of NotCancelable: only a done record refuses a cancel.
NotCancelable_OnlyDone(record) == record.status = "done"

\* record.status in {"done", "failed", "timeout"}
NotCancelable(record) == record.status \in {"done", "failed", "timeout"}

\* Mutant of CancelMarks: a cancel marks the record whatever its status.
CancelMarks_Always(record) == TRUE

\* record.status != "canceled": the record is to be marked.
CancelMarks(record) == record.status # "canceled"

\* with _jobs_lock: _cleanup_jobs(); the error exits; the answer for a record
\* that is canceled already; else _mark_job_finished's first assignment.
cancel_job(j) ==
    /\ lock = FREE
    /\ response = NoResponse
    /\ req.pc = "idle"
    /\ LET js == _cleanup_jobs
       IN  /\ idx' = RebuiltIndex(js)
           /\ IF j \notin Ids(js)
              THEN /\ jobs' = js
                   /\ response' = JobNotFound("cancel_job", j)
                   /\ UNCHANGED <<lock, req>>
              ELSE IF NotCancelable(Get(js, j))
              THEN /\ jobs' = js
                   /\ response' = ApiError("cancel_job", j, 409, "job_not_cancelable",
                                           "job already completed")
                   /\ UNCHANGED <<lock, req>>
              ELSE IF CancelMarks(Get(js, j))
              THEN /\ jobs' = MarkStatus(js, j, "canceled")
                   /\ lock' = RequestHolds(j)
                   /\ req' = [pc |-> "mark_error", job |-> j]
                   /\ response' = NoResponse
              ELSE /\ jobs' = js
                   /\ response' = _to_job_status_response("cancel_job", Get(js, j))
                   /\ UNCHANGED <<lock, req>>
    /\ lst' = Retired(_cleanup_jobs)
    /\ UNCHANGED <<now, tz, nextId, bg>>

\* _mark_job_finished: record.error = error
cancel_job_mark_error ==
    /\ req.pc = "mark_error"
    /\ lock = RequestHolds(req.job)
    /\ jobs' = MarkError(jobs, req.job, CANCEL_MESSAGE)
    /\ req' = [req EXCEPT !.pc = "mark_finished"]
    /\ response' = NoResponse
    /\ UNCHANGED <<now, tz, idx, nextId, lock, bg, lst>>

\* _mark_job_finished: record.finishedAt = strftime(...); the answer; the
\* lock is released.
cancel_job_mark_finished ==
    /\ req.pc = "mark_finished"
    /\ lock = RequestHolds(req.job)
    /\ jobs' = MarkFinishedAt(jobs, req.job)
    /\ response' = _to_job_status_response("cancel_job", Get(jobs', req.job))
    /\ req' = IdleRequest
    /\ lock' = FREE
    /\ UNCHANGED <<now, tz, idx, nextId, bg, lst>>

\* ----------------------------------------------------------------- health

health ==
    /\ lock = FREE
    /\ response = NoResponse
    /\ LET js == _cleanup_jobs
       IN  /\ jobs' = js
           /\ idx' = RebuiltIndex(js)
           /\ lst' = Retired(js)
           /\ response' =
                [NoResponse EXCEPT
                    !.op = "health", !.http = 200, !.status = "ok",
                    !.jobsInMemory = Len(js),
                    !.idempotencyKeysInMemory = Cardinality(DOMAIN RebuiltIndex(js)),
                    !.constants = {"JOB_RUN_TIMEOUT_SECONDS"}]
    /\ UNCHANGED <<now, tz, nextId, lock, bg, req>>

\* ------------------------------------------------------------------- list

\* The reader l has taken a step: it goes on, or it has nothing left to
\* read and list_jobs returns.
ListGoesOn(l) ==
    IF Settled(l).pc = "return"
    THEN /\ lst' = IdleList
         /\ response' = JobListResponse(Settled(l))
    ELSE /\ lst' = Settled(l)
         /\ response' = NoResponse

\* The validation of limit and cursor; then, with _jobs_lock:
\* _cleanup_jobs(); records = list(_jobs.values()); and, the lock released,
\* the sort on createdAt, which no writer changes.
list_jobs(status, limit, cursor) ==
    /\ lst.pc = "idle"
    /\ response = NoResponse
    /\ IF InvalidLimit(limit)
       THEN /\ response' = [ApiError("list_jobs", 0, 400, "invalid_pagination",
                                     "limit must be between 1 and 100")
                                EXCEPT !.limit = limit]
            /\ UNCHANGED <<jobs, idx, lst>>
       ELSE IF InvalidCursor(cursor)
       THEN /\ response' = [ApiError("list_jobs", 0, 400, "invalid_cursor",
                                     "cursor must be a non-negative integer")
                                EXCEPT !.limit = limit]
            /\ UNCHANGED <<jobs, idx, lst>>
       ELSE /\ lock = FREE
            /\ LET js == _cleanup_jobs
               IN  /\ jobs' = js
                   /\ idx' = RebuiltIndex(js)
                   /\ LET l == [IdleList EXCEPT
                                  !.status = status,
                                  !.offset = OffsetOf(cursor),
                                  !.limit = limit,
                                  !.records = IdsInOrder(SortedByCreatedDesc(js))]
                      IN  ListGoesOn(IF status # None
                                     THEN [l EXCEPT !.pc = "filter", !.i = 1]
                                     ELSE Paged(l, l.records))
    /\ UNCHANGED <<now, tz, nextId, lock, bg, req>>

\* [item for item in records if item.status == status]: the read of one
\* record's status.
list_jobs_filter ==
    /\ lst.pc = "filter"
    /\ response = NoResponse
    /\ LET id == lst.records[lst.i]
       IN  ListGoesOn([lst EXCEPT
              !.i = @ + 1,
              !.kept = IF Obj(id).status = lst.status THEN Append(@, id) ELSE @])
    /\ UNCHANGED <<now, tz, jobs, idx, nextId, lock, bg, req>>

\* The fields of a JobListItem a writer may change, in the order the
\* constructor call reads them.
NextField(field) ==
    IF field = "status" THEN "startedAt"
    ELSE IF field = "startedAt" THEN "finishedAt"
    ELSE IF field = "finishedAt" THEN "error"
    ELSE "status"

\* JobListItem(jobId=record.jobId, status=record.status, ...): the read of
\* one field of one record of the page; with the last one the item is built.
list_jobs_item ==
    /\ lst.pc = "items"
    /\ response = NoResponse
    /\ LET record == Obj(lst.records[lst.i])
           item == [IF lst.field = "status"
                    THEN [NoItem EXCEPT !.jobId = record.jobId,
                                        !.task = record.task,
                                        !.createdAt = record.createdAt]
                    ELSE lst.item
                       EXCEPT ![lst.field] = record[lst.field]]
       IN  ListGoesOn(IF lst.field = "error"
                      THEN [lst EXCEPT !.items = Append(@, item),
                                       !.item = NoItem,
                                       !.i = @ + 1,
                                       !.field = "status"]
                      ELSE [lst EXCEPT !.item = item,
                                       !.field = NextField(lst.field)])
    /\ UNCHANGED <<now, tz, jobs, idx, nextId, lock, bg, req>>

\* ---------------------------------------------------------------- answers

\* The answer of the handler that just returned is handed to its caller.
Respond ==
    /\ response # NoResponse
    /\ response' = NoResponse
    /\ UNCHANGED <<now, tz, jobs, idx, nextId, lock, bg, req, lst>>

\* ------------------------------------------------------------------ next

Next ==
    \/ Tick
    \/ health
    \/ \E key \in Keys : create_job(key)
    \/ \E j \in JobIds : _process_job(j)
    \/ \E j \in JobIds : get_job_status(j)
    \/ \E j \in JobIds : get_job_result(j)
    \/ \E j \in JobIds : cancel_job(j)
    \/ cancel_job_mark_error
    \/ cancel_job_mark_finished
    \/ Respond

Spec == Init /\ [][Next]_vars

\* The list requests among the writers of the store: submissions (without a
\* key, ListMaxJobs of them), the execution path, cancel and the clock, in a
\* process whose local zone is UTC.
ListInit == Init /\ tz = [offset |-> 0, dstFrom |-> NoTime]

list_create_job == nextId <= ListMaxJobs /\ create_job("")

\* _process_job beside the reader, its executor succeeding in time,
\* succeeding late, or raising ValueError.
list_process_job(j) ==
    \/ process_job_start(j)
    \/ process_job_stamp_started(j)
    \/ process_job_return(j, "return", "r1", JOB_RUN_TIMEOUT_SECONDS)
    \/ process_job_return(j, "return", "r1", JOB_RUN_TIMEOUT_SECONDS + 1)
    \/ process_job_return(j, "raise", "invalid data URL", JOB_RUN_TIMEOUT_SECONDS)
    \/ process_job_mark_error(j)
    \/ process_job_mark_finished(j)
    \/ process_job_done_finished(j)
    \/ process_job_done_result(j)

ListNext ==
    \/ Tick
    \/ list_create_job
    \/ \E status \in {None} \cup Statuses, limit \in Limits, cursor \in Cursors :
          list_jobs(status, limit, cursor)
    \/ list_jobs_filter
    \/ list_jobs_item
    \/ \E j \in JobIds : list_process_job(j)
    \/ \E j \in JobIds : cancel_job(j)
    \/ cancel_job_mark_error
    \/ cancel_job_mark_finished
    \/ Respond

ListSpec == ListInit /\ [][ListNext]_vars

\* Every handler and the reader of list_jobs, over the stores of ListSpec.
frame_create_job ==
    \E key \in Keys : create_job(key) /\ nextId' <= ListMaxJobs + 1

FrameNext ==
    \/ Tick
    \/ frame_create_job
    \/ health
    \/ \E j \in JobIds : get_job_status(j)
    \/ \E j \in JobIds : get_job_result(j)
    \/ \E status \in {None, "running"} : list_jobs(status, 1, None)
    \/ list_jobs_filter
    \/ list_jobs_item
    \/ \E j \in JobIds : list_process_job(j)
    \/ \E j \in JobIds : cancel_job(j)
    \/ cancel_job_mark_error
    \/ cancel_job_mark_finished
    \/ Respond

FrameSpec == ListInit /\ [][FrameNext]_vars

\* The handlers and the background tasks over the stores of ListSpec, the
\* tasks scheduled fairly: a task that can take its next step again and
\* again takes it, a handler that holds the lock goes on, and an answer is
\* handed over.
LiveNext ==
    \/ Tick
    \/ frame_create_job
    \/ health
    \/ \E j \in JobIds : get_job_status(j)
    \/ \E j \in JobIds : _process_job(j)
    \/ \E j \in JobIds : cancel_job(j)
    \/ cancel_job_mark_error
    \/ cancel_job_mark_finished
    \/ Respond

Fairness ==
    /\ \A j \in JobIds : SF_vars(_process_job(j))
    /\ WF_vars(cancel_job_mark_error)
    /\ WF_vars(cancel_job_mark_finished)
    /\ WF_vars(Respond)

LiveSpec == ListInit /\ [][LiveNext]_vars /\ Fairness

\* list_jobs called one at a time: the writers move while no reader is on
\* its way, so that a call reads the store as its retention pass left it.
\* Limits and cursors that are valid.
PageLimits == {1, 2}
PageCursors == {None, "", "0", "1", "2"}

PageNext ==
    \/ /\ lst.pc = "idle"
       /\ \/ Tick
          \/ list_create_job
          \/ \E j \in JobIds : list_process_job(j)
          \/ \E j \in JobIds : cancel_job(j)
          \/ cancel_job_mark_error
          \/ cancel_job_mark_finished
    \/ \E status \in {None} \cup Statuses, limit \in PageLimits,
          cursor \in PageCursors : list_jobs(status, limit, cursor)
    \/ list_jobs_filter
    \/ list_jobs_item
    \/ Respond

PageSpec == ListInit /\ [][PageNext]_vars

\* ============================================================== properties

Live(j) == j \in Ids(jobs)
Rec(j) == Get(jobs, j)
StillLive(j) == j \in Ids(jobs) /\ j \in Ids(jobs')

\* The background task of j is inside its writes of an outcome.
WritingOutcome(j) ==
    bg[j].pc \in {"mark_error", "mark_finished", "done_finished", "done_result"}

\* The handler whose answer is in response found j in the store.
Answered(op) == response.op = op /\ response.jobId \in Ids(jobs)

Edges ==
    {<<"pending", "running">>, <<"running", "done">>, <<"running", "failed">>,
     <<"running", "timeout">>, <<"pending", "canceled">>,
     <<"running", "canceled">>}

\* C1: in every step, the status of a record that stays in the store either
\* does not change or changes along one of the six edges of the state
\* machine (so a record in a terminal state keeps that state); a record
\* enters the store as pending, and a record that left it does not return.
C1_StatusEdges ==
    [][\A j \in JobIds :
         /\ StillLive(j) =>
              \/ Get(jobs', j).status = Rec(j).status
              \/ <<Rec(j).status, Get(jobs', j).status>> \in Edges
         /\ (~Live(j) /\ j \in Ids(jobs')) =>
              j = nextId /\ Get(jobs', j).status = "pending"]_vars

\* C1 witness: one record was canceled while running and its task has
\* finished, another went from running to a terminal state of its own.
C1_Witness ==
    \E j, k \in JobIds :
        /\ Live(j) /\ Rec(j).status = "canceled" /\ Rec(j).startedAt # NoTime
        /\ bg[j].pc = "finished"
        /\ Live(k) /\ Rec(k).status \in {"done", "failed", "timeout"}

\* A cancel of j has returned: the record carries all that it wrote.
Canceled(j) ==
    /\ Live(j)
    /\ Rec(j).status = "canceled"
    /\ Rec(j).error = CANCEL_MESSAGE
    /\ Rec(j).finishedAt # NoTime

\* C2: a canceled record has no result; in every step it stays canceled with
\* the cancel message, its finishedAt and no result for as long as it is in
\* the store, whatever its executor returns; and get_job_result that finds a
\* canceled record answers 409 job_canceled.
C2_CancelWins ==
    /\ [](\A j \in JobIds :
            /\ (Live(j) /\ Rec(j).status = "canceled") => Rec(j).result = None
            /\ (Answered("get_job_result") /\ response.jobId = j
                    /\ Rec(j).status = "canceled")
                 => response.http = 409 /\ response.code = "job_canceled")
    /\ [][\A j \in JobIds :
            (Canceled(j) /\ j \in Ids(jobs')) => Get(jobs', j) = Rec(j)]_vars

\* C2 witness: get_job_result answers job_canceled for a record that was
\* canceled while its executor ran and whose executor has since returned.
C2_Witness ==
    /\ Answered("get_job_result")
    /\ response.code = "job_canceled"
    /\ Rec(response.jobId).startedAt # NoTime
    /\ bg[response.jobId].pc = "finished"

\* C3: while the execution path writes the outcome of an executor that
\* returned a result after more than the budget, the record's status is
\* timeout and it has no result; a timeout record seen with the lock free
\* carries the fixed message, a finishedAt and no result; get_job_result
\* that finds a timeout record answers 409 job_timeout.
C3_SlowSuccessTimesOut ==
    \A j \in JobIds :
        /\ (WritingOutcome(j) /\ bg[j].kind = "return"
                /\ bg[j].elapsed > JOB_RUN_TIMEOUT_SECONDS)
             => Rec(j).status = "timeout" /\ Rec(j).result = None
        /\ (Live(j) /\ Rec(j).status = "timeout" /\ lock = FREE)
             => /\ Rec(j).error = TIMEOUT_MESSAGE
                /\ Rec(j).finishedAt # NoTime
                /\ Rec(j).result = None
        /\ (Answered("get_job_result") /\ response.jobId = j
                /\ Rec(j).status = "timeout")
             => response.http = 409 /\ response.code = "job_timeout"

\* C3 witness: get_job_result answers job_timeout.
C3_Witness ==
    /\ Answered("get_job_result")
    /\ response.code = "job_timeout"
    /\ Rec(response.jobId).status = "timeout"

\* C4 (as claimed): whenever the execution path writes the outcome of an
\* executor that took more than the budget, a result or a failure alike, the
\* status it records is timeout.
C4_TimeoutPrecedesClassification ==
    \A j \in JobIds :
        (WritingOutcome(j) /\ bg[j].elapsed > JOB_RUN_TIMEOUT_SECONDS)
            => Rec(j).status = "timeout"

\* C5: a create_job whose key is in the index after its retention pass
\* answers with the indexed record's jobId, its current status and its
\* createdAt as acceptedAt, and changes nothing but what retention removed:
\* no record is added, no id is used, no task is scheduled.  Every answer of
\* create_job names a record of the store and that record's createdAt, so two
\* submissions answered from one record agree on jobId and acceptedAt.
C5_ReplayAnswersOriginal ==
    /\ [](response.op = "create_job" =>
            /\ Live(response.jobId)
            /\ response.acceptedAt = Rec(response.jobId).createdAt)
    /\ [][(response'.op = "create_job"
             /\ response'.key \in DOMAIN RebuiltIndex(_cleanup_jobs))
          => LET js == _cleanup_jobs
                 id == RebuiltIndex(js)[response'.key]
             IN  /\ response'.jobId = id
                 /\ response'.status = Get(js, id).status
                 /\ response'.acceptedAt = Get(js, id).createdAt
                 /\ jobs' = js
                 /\ nextId' = nextId
                 /\ bg' = bg]_vars

\* C5 witness: a replay answered after the clock has advanced past the
\* record's createdAt, while the record's executor runs.
C5_Witness ==
    /\ response.op = "create_job"
    /\ response.key = "k1"
    /\ response.status = "running"
    /\ response.acceptedAt < now

\* C6 (as claimed): no two records of the store carry the same key.
C6_OneRecordPerKey ==
    \A i, k \in 1..Len(jobs) :
        i # k => jobs[i].idempotencyKey # jobs[k].idempotencyKey

\* C6 (amended): no two records of the store carry the same non-empty key.
C6_OneRecordPerNonEmptyKey ==
    \A i, k \in 1..Len(jobs) :
        (i # k /\ Truthy(jobs[i].idempotencyKey))
            => jobs[i].idempotencyKey # jobs[k].idempotencyKey

\* C6 witness: a second submission with the key of a record of the store
\* has been answered from that record, with another record beside it.
C6_Witness ==
    /\ response.op = "create_job"
    /\ response.key = "k1"
    /\ response.jobId # nextId - 1
    /\ Len(jobs) > 1

\* A step in which cancel_job(j) begins to mark the record.
CancelBeginsMark(j) == req.pc = "idle" /\ req'.pc = "mark_error" /\ req'.job = j

\* A step in which cancel_job(j) answers.
CancelAnswers(j) == response'.op = "cancel_job" /\ response'.jobId = j

\* C7: with js the store after cancel_job's retention pass: cancel_job(j)
\* marks only a pending or running record, and then sets its status to
\* canceled and answers 200 with status canceled; it answers 404
\* job_not_found when j is not in js; it answers 409 when the record is done,
\* failed or timeout, and leaves that record as it was.
C7_CancelContract ==
    [][\A j \in JobIds :
         LET js == _cleanup_jobs
         IN  /\ CancelBeginsMark(j) =>
                  /\ j \in Ids(js)
                  /\ Get(js, j).status \in {"pending", "running"}
                  /\ Get(jobs', j).status = "canceled"
             /\ (CancelAnswers(j) /\ req.pc = "mark_finished") =>
                  /\ response'.http = 200
                  /\ response'.status = "canceled"
                  /\ Get(jobs', j).status = "canceled"
             /\ (CancelAnswers(j) /\ req.pc = "idle") =>
                  IF j \notin Ids(js)
                  THEN response'.http = 404 /\ response'.code = "job_not_found"
                  ELSE IF Get(js, j).status \in {"done", "failed", "timeout"}
                  THEN /\ response'.http = 409
                       /\ j \in Ids(jobs') /\ Get(jobs', j) = Rec(j)
                  ELSE /\ Get(js, j).status = "canceled"
                       /\ response'.http = 200]_vars

\* C7 witness: cancel_job has answered 409 for a timeout record while
\* another record of the store has been canceled.
C7_Witness ==
    /\ Answered("cancel_job")
    /\ response.http = 409
    /\ Rec(response.jobId).status = "timeout"
    /\ \E k \in JobIds : Canceled(k)

\* C8: cancel_job(j) on a record that is canceled already answers 200 with
\* status canceled and the record's error and finishedAt, and leaves the
\* record as it was; it never marks such a record again; and the error and
\* finishedAt of a canceled record do not change while it is in the store.
C8_CancelIdempotent ==
    [][\A j \in JobIds :
         LET js == _cleanup_jobs
         IN  /\ (CancelAnswers(j) /\ req.pc = "idle" /\ j \in Ids(js)
                    /\ Get(js, j).status = "canceled") =>
                  /\ response'.http = 200
                  /\ response'.status = "canceled"
                  /\ response'.error = Rec(j).error
                  /\ response'.finishedAt = Rec(j).finishedAt
                  /\ Get(jobs', j) = Rec(j)
             /\ CancelBeginsMark(j) => Get(js, j).status # "canceled"
             /\ (Canceled(j) /\ j \in Ids(jobs')) =>
                  /\ Get(jobs', j).finishedAt = Rec(j).finishedAt
                  /\ Get(jobs', j).error = Rec(j).error]_vars

\* C8 witness: cancel_job has answered 200 for a record canceled before the
\* clock last advanced.
C8_Witness ==
    /\ Answered("cancel_job")
    /\ response.http = 200
    /\ response.status = "canceled"
    /\ response.finishedAt < now

\* What get_job_result answers for a record it finds, but for the message.
ResultCodeByStatus(r) ==
    /\ (response.http = 200) <=> (r.status = "done" /\ r.result # None)
    /\ response.http = 200 => response.result = r.result
    /\ r.status = "failed" => response.http = 409 /\ response.code = "job_failed"
    /\ r.status = "timeout" => response.http = 409 /\ response.code = "job_timeout"
    /\ r.status = "canceled" => response.http = 409 /\ response.code = "job_canceled"
    /\ r.status \in {"pending", "running"} =>
          response.http = 409 /\ response.code = "job_not_completed"

\* C9 (as claimed): get_job_result that finds a record answers by its status,
\* and for failed, timeout and canceled with the stored error message.
C9_CarriesStoredMessage ==
    Answered("get_job_result") =>
        LET r == Rec(response.jobId)
        IN  /\ ResultCodeByStatus(r)
            /\ r.status \in {"failed", "timeout", "canceled"} =>
                  response.message = r.error

\* C9 (amended): as claimed, but an empty stored message is answered with
\* the handler's default message for the status.
C9_ResultByStatus ==
    Answered("get_job_result") =>
        LET r == Rec(response.jobId)
        IN  /\ ResultCodeByStatus(r)
            /\ r.status \in {"failed", "timeout", "canceled"} =>
                  response.message =
                      IF r.error # "" THEN r.error
                      ELSE IF r.status = "failed" THEN "job failed"
                      ELSE IF r.status = "timeout" THEN "job timeout"
                      ELSE "job canceled"

\* C9 witness: get_job_result has answered job_failed for a record whose
\* stored message is empty.
C9_Witness ==
    /\ Answered("get_job_result")
    /\ response.code = "job_failed"
    /\ Rec(response.jobId).error = ""

\* A step in which get_job_result(j) answers.
ResultAnswers(j) == response'.op = "get_job_result" /\ response'.jobId = j

\* C10 (as claimed): get_job_result on a record of the store that is pending
\* or running answers 409, and on one that is done answers 200 with the
\* record's result.
C10_ResultAlwaysOnceDone ==
    [][\A j \in JobIds :
         (ResultAnswers(j) /\ Live(j)) =>
             /\ Rec(j).status \in {"pending", "running"} => response'.http = 409
             /\ Rec(j).status = "done" =>
                   response'.http = 200 /\ response'.result = Rec(j).result]_vars

\* C10 (amended): with js the store after get_job_result's retention pass:
\* for a record of js that is pending or running the answer is 409
\* job_not_completed, for one that is done it is 200 with the record's
\* result; and a done record keeps its result while it is in the store.
C10_ResultWhileLive ==
    [][\A j \in JobIds :
         LET js == _cleanup_jobs
         IN  /\ (ResultAnswers(j) /\ j \in Ids(js)) =>
                  /\ Get(js, j).status \in {"pending", "running"} =>
                        response'.http = 409 /\ response'.code = "job_not_completed"
                  /\ Get(js, j).status = "done" =>
                        /\ response'.http = 200
                        /\ response'.result = Get(js, j).result
                        /\ response'.result \in Payloads
             /\ (Live(j) /\ Rec(j).status = "done" /\ Rec(j).result # None
                    /\ j \in Ids(jobs')) =>
                  Get(jobs', j) = Rec(j)]_vars

\* C10 witness: get_job_result has answered 200 for a record that finished
\* before the clock last advanced.
C10_Witness ==
    /\ Answered("get_job_result")
    /\ response.http = 200
    /\ Rec(response.jobId).finishedAt < now

\* A record of the store in a terminal state whose finishedAt is older than
\* the TTL.
Expired(r) ==
    /\ r.status \in Terminal
    /\ r.finishedAt # NoTime
    /\ now - r.finishedAt > JOBS_TTL_SECONDS

\* C11 (as claimed): when a handler that runs the retention pass has
\* answered, the store holds no record in a terminal state whose finishedAt
\* is older than the TTL, and get_job_status has not found such a record.
C11_NoExpiredAfterRetention ==
    response.op \in {"health", "create_job", "get_job_status", "get_job_result",
                     "cancel_job"}
        => /\ \A i \in 1..Len(jobs) : ~Expired(jobs[i])
           /\ (response.op = "get_job_status" /\ response.http = 200)
                 => ~Expired(response)

\* The store between the two steps of a retention pass run now.
AfterTtl == PopAll(jobs, Removable(jobs))

\* The records the capacity step of a retention pass run now removes.
EvictedForCapacity == Ids(AfterTtl) \ Ids(_cleanup_jobs)

\* C12 (as claimed): a retention pass run in any reachable state leaves at most
\* JOBS_MAX_ITEMS records; its capacity step removes exactly the excess over
\* the cap of what the TTL step left (nothing when there is none), whatever
\* the status of the records; every record it leaves has a createdAt not
\* earlier than that of every record it removed; the records it leaves are
\* as they were.  And the store a handler other than create_job has answered
\* from holds at most JOBS_MAX_ITEMS records.
C12_CapacityEvictsOldest ==
    /\ Len(_cleanup_jobs) <= JOBS_MAX_ITEMS
    /\ Cardinality(EvictedForCapacity) =
          IF Len(AfterTtl) > JOBS_MAX_ITEMS
          THEN Len(AfterTtl) - JOBS_MAX_ITEMS ELSE 0
    /\ \A e \in EvictedForCapacity : \A k \in Ids(_cleanup_jobs) :
          Get(jobs, e).createdAt <= Get(jobs, k).createdAt
    /\ _cleanup_jobs = PopAll(AfterTtl, EvictedForCapacity)
    /\ response.op \in {"health", "get_job_status", "get_job_result", "cancel_job"}
          => Len(jobs) <= JOBS_MAX_ITEMS

\* Job j was submitted and its record has left the store.
Gone(j) == j < nextId /\ j \notin Ids(jobs)

\* C13: a record that has left the store does not return; get_job_status,
\* get_job_result and cancel_job answer 404 job_not_found for its id; and
\* the background task of such a job, when its executor returns, changes
\* neither the store nor the index and ends.
C13_EvictedJobIsGone ==
    /\ [](\A j \in JobIds :
            (Gone(j) /\ response.jobId = j
               /\ response.op \in {"get_job_status", "get_job_result", "cancel_job"})
            => response.http = 404 /\ response.code = "job_not_found")
    /\ [][\A j \in JobIds :
            Gone(j) =>
               /\ j \notin Ids(jobs')
               /\ (bg[j].pc = "executing" /\ bg'[j] # bg[j]) =>
                     /\ jobs' = jobs
                     /\ idx' = idx
                     /\ bg'[j].pc = "finished"]_vars

\* C13 witness: get_job_status has answered 404 for a job whose record left
\* the store while its executor runs (a record that is not in a terminal
\* state leaves the store by capacity eviction only), with records of other
\* jobs in the store.
C13_Witness ==
    /\ response.op = "get_job_status"
    /\ response.http = 404
    /\ Gone(response.jobId)
    /\ bg[response.jobId].pc = "executing"
    /\ Len(jobs) = JOBS_MAX_ITEMS

\* The items of the pages a client gets that calls list_jobs with limit 1
\* and no filter on a store whose records are ids in list order, starting
\* with cursor and following next_cursor until there is none.
RECURSIVE PagesFrom(_, _)
PagesFrom(ids, cursor) ==
    LET page == Slice(ids, OffsetOf(cursor), 1)
        next == NextCursor(OffsetOf(cursor), 1, Len(ids))
    IN  IF next = None THEN page ELSE page \o PagesFrom(ids, next)

\* C14 (as claimed): in every reachable state with two or more records left
\* by the retention pass, the pages of limit 1 that list_jobs serves from
\* that store, from the first to the one without next_cursor, hold every
\* record once and in createdAt-descending order.
C14_PagesCoverDescending ==
    LET js == _cleanup_jobs
        all == PagesFrom(IdsInOrder(SortedByCreatedDesc(js)), None)
    IN  Len(js) >= 2 =>
          /\ Len(all) = Len(js)
          /\ {all[i] : i \in 1..Len(all)} = Ids(js)
          /\ \A i, k \in 1..Len(all) :
                i < k => Get(js, all[i]).createdAt >= Get(js, all[k]).createdAt

\* C15 (as claimed): every item of an answer of list_jobs called with a
\* status filter shows that status.
C15_FilteredItemsMatch ==
    (response.op = "list_jobs" /\ response.http = 200 /\ response.filter # None)
        => \A i \in 1..Len(response.items) :
              response.items[i].status = response.filter

\* The cursor denotes a non-negative integer.
NonNegativeInteger(cursor) == \E n \in 0..MaxJobs : ToString(n) = cursor

\* A step that is a call of list_jobs.
ListCall ==
    /\ lst.pc = "idle"
    /\ response = NoResponse
    /\ (lst'.pc # "idle" \/ response'.op = "list_jobs")

\* A step in which list_jobs, called with limit and cursor, answers 400 and
\* leaves store, index, lock and reader as they were.
RefusedUntouched(limit, cursor) ==
    \A status \in {None} \cup Statuses :
        list_jobs(status, limit, cursor) =>
            /\ response'.http = 400
            /\ response'.code \in {"invalid_pagination", "invalid_cursor"}
            /\ jobs' = jobs
            /\ idx' = idx
            /\ lock' = lock
            /\ lst' = lst

\* C16 (as claimed): list_jobs called with a limit outside [1, 100], or with
\* a cursor that is given and does not denote a non-negative integer,
\* answers 400 and leaves store and index as they were.
C16_InvalidArgumentsRefused ==
    [][ListCall =>
          \A limit \in Limits, cursor \in Cursors :
             (limit \notin 1..100
                \/ (cursor # None /\ ~NonNegativeInteger(cursor)))
                 => RefusedUntouched(limit, cursor)]_vars

\* C16 (amended): as claimed, for a cursor that is given, is not the empty
\* string and does not denote a non-negative integer.
C16_InvalidNonEmptyRefused ==
    [][ListCall =>
          \A limit \in Limits, cursor \in Cursors :
             (limit \notin 1..100
                \/ (cursor \notin {None, ""} /\ ~NonNegativeInteger(cursor)))
                 => RefusedUntouched(limit, cursor)]_vars

\* C16 witness: list_jobs has answered 400 in a state whose store a
\* retention pass would change.
C16_Witness ==
    /\ response.op = "list_jobs"
    /\ response.http = 400
    /\ _cleanup_jobs # jobs

\* ------------------------------------------------------------------- C17

\* A view whose status and time stamps belong to one instant of a record:
\* running goes with a startedAt, a terminal status with a finishedAt.
Consistent(view) ==
    /\ view.status = "running" => view.startedAt # NoTime
    /\ view.status \in Terminal => view.finishedAt # NoTime

\* C17: every view that get_job_status and cancel_job answer, and every item
\* of an answer of list_jobs, shows the fields a record held at one single
\* instant: none shows running without startedAt, or a terminal status
\* without finishedAt.
C17_ViewsAreConsistent ==
    /\ (response.http = 200 /\ response.op \in {"get_job_status", "cancel_job"})
          => Consistent(response)
    /\ (response.http = 200 /\ response.op = "list_jobs")
          => \A i \in 1..Len(response.items) : Consistent(response.items[i])

\* ------------------------------------------------------------------- C18

\* The executor of job j is running.
Executing(j) == j \in JobIds /\ bg[j].pc = "executing"

\* Every handler can take the lock and run (list_jobs: looked at where the
\* store holds one record at most).
HandlersCanRun ==
    /\ ENABLED health
    /\ Len(jobs) <= 1 => ENABLED list_jobs(None, 1, None)
    /\ \A j \in JobIds :
          /\ ENABLED get_job_status(j)
          /\ ENABLED get_job_result(j)
          /\ ENABLED cancel_job(j)
    /\ nextId <= MaxJobs => \A key \in Keys : ENABLED create_job(key)

\* C18: while the executor of a job runs, its task does not hold the lock;
\* with the lock free every handler can take it and run, and a cancel_job
\* that holds it can go on to its answer, none waiting for the executor.
C18_ExecutorRunsUnlocked ==
    \A j \in JobIds :
        Executing(j) =>
            /\ lock # TaskHolds(j)
            /\ (lock = FREE /\ response = NoResponse) => HandlersCanRun
            /\ lock.holder = "request" =>
                  ENABLED (cancel_job_mark_error \/ cancel_job_mark_finished)

\* C18 witness: get_job_status has answered for a job, running and stamped,
\* whose executor has not returned.
C18_Witness ==
    /\ response.op = "get_job_status"
    /\ response.http = 200
    /\ response.status = "running"
    /\ Executing(response.jobId)

\* ------------------------------------------------------------------- C19

\* The task of j leaves the executor with an exception, its record live and
\* not canceled.
RaisedOnLive(j) ==
    /\ bg[j].pc = "executing"
    /\ bg'[j].pc = "mark_error"
    /\ bg'[j].kind = "raise"

\* The task of j, which left the executor with an exception, returns.
RaisedReturns(j) ==
    /\ bg[j].kind = "raise"
    /\ bg[j].pc = "mark_finished"
    /\ bg'[j].pc = "finished"

\* C19: when the executor raises for a record that is live and not canceled,
\* the record is marked failed at once, and when the task returns the record
\* is live and failed, with str(exc) as error and finishedAt stamped; a task
\* that has returned leaves no live record pending or running behind, unless
\* it found the record canceled; and create_job never answers with an error:
\* it answers 200, with status pending for the record it creates.
C19_RaisedBecomesFailed ==
    [][/\ \A j \in JobIds :
             /\ RaisedOnLive(j) =>
                   j \in Ids(jobs') /\ Get(jobs', j).status = "failed"
             /\ RaisedReturns(j) =>
                   /\ j \in Ids(jobs')
                   /\ Get(jobs', j).status = "failed"
                   /\ Get(jobs', j).error = bg[j].value
                   /\ Get(jobs', j).finishedAt = now
             /\ (bg'[j].pc = "finished" /\ j \in Ids(jobs')) =>
                   Get(jobs', j).status \in Terminal
       /\ response'.op = "create_job" =>
             /\ response'.http = 200
             /\ response'.code = None
             /\ response'.error = None
             /\ nextId' # nextId => response'.status = "pending"]_vars

\* C19 witness: a live record is failed with the message of the exception
\* its executor raised, its task having returned.
C19_Witness ==
    \E j \in Ids(jobs) :
        /\ bg[j].pc = "finished"
        /\ Rec(j).status = "failed"
        /\ Rec(j).error = "invalid data URL"
        /\ Rec(j).finishedAt # NoTime

\* ------------------------------------------------------------------- C20

\* A writer is inside a locked block in which it writes the record of j.
LockedOn(l, j) == l.holder # "none" /\ l.job = j

\* C20: for a record that stays in the store, createdAt never changes; a
\* terminal status never changes; once the locked block that made the
\* status terminal is left, error, result and finishedAt never change, and
\* finishedAt, once written, never changes; startedAt changes only once,
\* from unset, in the locked block of _process_job that has just set the
\* status from pending to running, and outside that block a running record
\* has its startedAt.
C20_TerminalAbsorbing ==
    [][\A j \in JobIds :
          StillLive(j) =>
             LET before == Get(jobs, j)
                 after == Get(jobs', j)
             IN  /\ after.createdAt = before.createdAt
                 /\ before.status \in Terminal => after.status = before.status
                 /\ (before.status \in Terminal /\ ~LockedOn(lock, j)) =>
                       /\ after.error = before.error
                       /\ after.result = before.result
                       /\ after.finishedAt = before.finishedAt
                 /\ before.finishedAt # NoTime =>
                       after.finishedAt = before.finishedAt
                 /\ after.startedAt # before.startedAt =>
                       /\ before.startedAt = NoTime
                       /\ bg[j].pc = "stamp_started"
                       /\ before.status = "running"
                       /\ after.status = "running"
                 /\ (after.status = "running" /\ ~LockedOn(lock', j)) =>
                       after.startedAt # NoTime]_vars

\* C20 witness: cancel_job has been refused for a record that is done, with
\* its result and its time stamps.
C20_Witness ==
    /\ response.op = "cancel_job"
    /\ response.http = 409
    /\ Live(response.jobId)
    /\ Rec(response.jobId).status = "done"
    /\ Rec(response.jobId).result # None
    /\ Rec(response.jobId).startedAt # NoTime
    /\ Rec(response.jobId).finishedAt # NoTime

\* ------------------------------------------------------------------- C21

\* C21: in every state, every record of the store has a result only if its
\* status is done and an error only if its status is failed, canceled or
\* timeout; so none has both, and a pending or running record has neither.
C21_ErrorAndResultByStatus ==
    \A i \in 1..Len(jobs) :
        /\ jobs[i].result # None => jobs[i].status = "done"
        /\ jobs[i].error # None =>
              jobs[i].status \in {"failed", "canceled", "timeout"}
        /\ ~(jobs[i].result # None /\ jobs[i].error # None)
        /\ jobs[i].status \in {"pending", "running"} =>
              (jobs[i].result = None /\ jobs[i].error = None)

\* C21 witness: the store holds a done record with its result and a record
\* with an error, after a cancel_job on a running record was answered.
C21_Witness ==
    /\ \E i \in 1..Len(jobs) :
          jobs[i].status = "done" /\ jobs[i].result # None
    /\ \E i \in 1..Len(jobs) :
          jobs[i].status = "canceled" /\ jobs[i].error = CANCEL_MESSAGE
             /\ jobs[i].startedAt # NoTime

\* ------------------------------------------------------------------- C22

\* C22: in every state in which the lock is free, every record of the store
\* has no startedAt while pending, no finishedAt while pending or running,
\* and a finishedAt when its status is terminal.
C22_StampsByStatus ==
    lock = FREE =>
        \A i \in 1..Len(jobs) :
            /\ jobs[i].status = "pending" => jobs[i].startedAt = NoTime
            /\ jobs[i].status \in {"pending", "running"} =>
                  jobs[i].finishedAt = NoTime
            /\ jobs[i].status \in Terminal => jobs[i].finishedAt # NoTime

\* C22 witness: with the lock free the store holds a running record and a
\* record that was canceled while pending.
C22_Witness ==
    /\ lock = FREE
    /\ \E i \in 1..Len(jobs) : jobs[i].status = "running"
    /\ \E i \in 1..Len(jobs) :
          jobs[i].status = "canceled" /\ jobs[i].startedAt = NoTime

\* ------------------------------------------------------------------- C23

\* C23: whenever the lock is free, the index is the mapping read off the
\* store: every entry leads to a record of the store that carries the
\* entry's key, and every record of the store that carries a non-empty key
\* is the one its key leads to.
C23_IndexMatchesStore ==
    lock = FREE =>
        /\ \A k \in DOMAIN idx :
              idx[k] \in Ids(jobs) /\ Get(jobs, idx[k]).idempotencyKey = k
        /\ \A i \in 1..Len(jobs) :
              Truthy(jobs[i].idempotencyKey) =>
                 /\ jobs[i].idempotencyKey \in DOMAIN idx
                 /\ idx[jobs[i].idempotencyKey] = jobs[i].jobId

\* C23 witness: with the lock free, after a retention pass has removed a
\* record, the index holds the key of a later record of the store.
C23_Witness ==
    /\ lock = FREE
    /\ \E k \in DOMAIN idx :
          /\ idx[k] > 1
          /\ \E j \in 1..(idx[k] - 1) : j \notin Ids(jobs)
    /\ Len(jobs) >= 2

\* ------------------------------------------------------------------- C24

\* How far a background task has got.
Rank(pc) ==
    IF pc = "idle" THEN 0
    ELSE IF pc = "queued" THEN 1
    ELSE IF pc = "stamp_started" THEN 2
    ELSE IF pc = "executing" THEN 3
    ELSE IF pc \in {"mark_error", "done_finished"} THEN 4
    ELSE IF pc \in {"mark_finished", "done_result"} THEN 5
    ELSE 6

\* C24: a background task only moves forward, so it is at the executor once
\* at most; it is handed to background_tasks only by the create_job that
\* creates its record, never by a replay; when it starts, it goes on to the
\* executor, its record set running, if the retention pass leaves the record
\* in the store and the record is not canceled, and otherwise it returns
\* without the executor and without a write to the record; and it reaches
\* the executor from nowhere else.
C24_ExecutorOncePerSubmission ==
    [][\A j \in JobIds :
          /\ Rank(bg'[j].pc) >= Rank(bg[j].pc)
          /\ (bg[j].pc = "idle" /\ bg'[j].pc # "idle") =>
                /\ bg'[j].pc = "queued"
                /\ j = nextId
                /\ nextId' = nextId + 1
                /\ j \notin Ids(jobs)
                /\ j \in Ids(jobs')
                /\ response'.op = "create_job"
                /\ response'.jobId = j
          /\ (response'.op = "create_job" /\ response'.jobId \in Ids(jobs)) =>
                bg' = bg
          /\ (bg[j].pc = "queued" /\ bg'[j].pc # "queued") =>
                IF j \in Ids(_cleanup_jobs)
                   /\ Get(_cleanup_jobs, j).status # "canceled"
                THEN /\ bg'[j].pc = "stamp_started"
                     /\ Get(jobs', j).status = "running"
                ELSE /\ bg'[j].pc = "finished"
                     /\ jobs' = _cleanup_jobs
          /\ bg[j].pc = "stamp_started" =>
                bg'[j].pc \in {"stamp_started", "executing"}
          /\ (bg'[j].pc = "executing" /\ bg[j].pc # "executing") =>
                bg[j].pc = "stamp_started"]_vars

\* C24 witness: one task has been at the executor and has returned, a second
\* has returned without it, its record canceled while pending, and a replay
\* of a submission is being answered.
C24_Witness ==
    /\ \E j \in Ids(jobs) :
          bg[j].pc = "finished" /\ Rec(j).status = "done"
    /\ \E j \in Ids(jobs) :
          /\ bg[j].pc = "finished"
          /\ Rec(j).status = "canceled"
          /\ Rec(j).startedAt = NoTime
    /\ response.op = "create_job"
    /\ response.jobId < nextId - 1

\* ------------------------------------------------------------------- C25

\* The answer carries the fields of record that the status projection
\* shows, and no result.
ProjectionOf(answer, record) ==
    /\ answer.jobId = record.jobId
    /\ answer.status = record.status
    /\ answer.task = record.task
    /\ answer.createdAt = record.createdAt
    /\ answer.startedAt = record.startedAt
    /\ answer.finishedAt = record.finishedAt
    /\ answer.error = record.error
    /\ answer.result = None

\* C25: a get_job_status or get_job_result step adds no record to the store;
\* for an id that its retention pass does not leave in the store it answers
\* 404 job_not_found, and only then; and get_job_status for an id that is in
\* the store answers 200 with the projection of the record as it is.
C25_NotFoundAndProjection ==
    [][(response'.op \in {"get_job_status", "get_job_result"}
            /\ response.op = "none") =>
          /\ Ids(jobs') \subseteq Ids(jobs)
          /\ nextId' = nextId
          /\ (response'.jobId \notin Ids(jobs')) <=>
                (response'.http = 404 /\ response'.code = "job_not_found")
          /\ (response'.op = "get_job_status"
                 /\ response'.jobId \in Ids(jobs')) =>
                /\ response'.http = 200
                /\ ProjectionOf(response', Get(jobs', response'.jobId))]_vars

\* C25 witness: get_job_status has answered for a done record that holds a
\* result, while an id submitted before it is in the store no more.
C25_Witness ==
    /\ response.op = "get_job_status"
    /\ response.http = 200
    /\ Live(response.jobId)
    /\ Rec(response.jobId).status = "done"
    /\ Rec(response.jobId).result # None
    /\ \E j \in 1..(nextId - 1) : ~Live(j)

\* ------------------------------------------------------------------- C26

\* The step is one of cancel_job for j, or of the background task of j.
TransitionOf(j) ==
    \/ bg'[j] # bg[j]
    \/ req.job = j
    \/ req'.job = j

\* The step is an answer of a handler that only reads records.
ReadOnlyAnswer ==
    /\ response.op = "none"
    /\ response'.op \in {"create_job", "get_job_status", "get_job_result",
                         "list_jobs", "health"}

\* C26: a record that stays in the store changes only in a step of
\* cancel_job for it or of its own background task; so create_job,
\* get_job_status, get_job_result, list_jobs and health change no field of a
\* record that stays (they remove records, and create_job adds one), and
\* cancel_job and the task of one job change no other record.
C26_OnlyDefinedTransitionsWrite ==
    [][/\ \A j \in JobIds :
             (StillLive(j) /\ Get(jobs', j) # Get(jobs, j)) => TransitionOf(j)
       /\ ReadOnlyAnswer =>
             /\ \A j \in JobIds : StillLive(j) => Get(jobs', j) = Get(jobs, j)
             /\ Ids(jobs') \subseteq (Ids(jobs) \cup {nextId})
       /\ lst.pc # "idle" /\ lst'.pc # "idle" /\ lst'.i # lst.i => jobs' = jobs
      ]_vars

\* C26 witness: list_jobs has answered with the newer of two records of the
\* store, the older one running with its task at the executor.
C26_Witness ==
    /\ response.op = "list_jobs"
    /\ response.http = 200
    /\ Len(response.items) = 1
    /\ Len(jobs) = 2
    /\ \E j \in Ids(jobs) :
          /\ j # response.items[1].jobId
          /\ Rec(j).status = "running"
          /\ bg[j].pc = "executing"

\* ------------------------------------------------------------------- C27

\* C27: an answer of health carries the number of records its retention
\* pass left in the store, which is JOBS_MAX_ITEMS at most, a number of
\* idempotency keys that is not larger, and the configured TTL, capacity
\* and timeout.
C27_HealthReport ==
    response.op = "health" =>
        /\ response.jobsInMemory = Len(jobs)
        /\ response.jobsInMemory <= JOBS_MAX_ITEMS
        /\ response.idempotencyKeysInMemory <= response.jobsInMemory
        /\ {"JOBS_TTL_SECONDS", "JOBS_MAX_ITEMS", "JOB_RUN_TIMEOUT_SECONDS"}
              \subseteq response.constants

\* ------------------------------------------------------------------- C28

\* The step is a create_job that creates a record.
Creates ==
    /\ response'.op = "create_job"
    /\ nextId' # nextId

\* What a creating create_job leaves and answers: the record pending with
\* nothing but its creation stamped, its key, if not empty, in the index,
\* the answer with the new id, pending and the record's createdAt, and the
\* task handed over and not started.
CreatedPending ==
    /\ nextId \in Ids(jobs')
    /\ Get(jobs', nextId) = JobRecord(nextId, now, response'.key)
    /\ Truthy(response'.key) =>
          (response'.key \in DOMAIN idx' /\ idx'[response'.key] = nextId)
    /\ response'.http = 200
    /\ response'.jobId = nextId
    /\ response'.status = "pending"
    /\ response'.acceptedAt = Get(jobs', nextId).createdAt
    /\ bg'[nextId].pc = "queued"

\* The step is a get_job_result for the record created last, in the second
\* of its creation.
ResultOfNewest ==
    /\ response.op = "none"
    /\ response'.op = "get_job_result"
    /\ response'.jobId = nextId - 1
    /\ Live(nextId - 1)
    /\ Rec(nextId - 1).createdAt = now

\* C28: a create_job that creates a record leaves it pending and answers as
\* CreatedPending says; and get_job_result for the record just created
\* answers 409 job_not_completed, unless the record is terminal already.
C28_SubmitThenResult ==
    [][/\ Creates => CreatedPending
       /\ (ResultOfNewest /\ Rec(nextId - 1).status \notin Terminal) =>
             /\ response'.http = 409
             /\ response'.code = "job_not_completed"]_vars

\* ------------------------------------------------------------------- C29

\* The record of j is in the store, pending or running.
Unfinished(j) == Live(j) /\ Rec(j).status \in {"pending", "running"}

\* C29: with the background tasks scheduled fairly and every executor
\* invocation returning or raising, a record that is pending or running is
\* eventually terminal or out of the store.
C29_EveryJobEnds ==
    \A j \in JobIds :
        Unfinished(j) ~> (~Live(j) \/ Rec(j).status \in Terminal)

\* C29 witness: the tasks of two submissions have returned, one record
\* failed and the other timed out.
C29_Witness ==
    /\ \E j \in Ids(jobs) : bg[j].pc = "finished" /\ Rec(j).status = "failed"
    /\ \E j \in Ids(jobs) : bg[j].pc = "finished" /\ Rec(j).status = "timeout"

\* ------------------------------------------------------------------- C30

\* C30: the TTL step of a retention pass run in any reachable state removes
\* only records in a terminal state whose finishedAt is older than the TTL:
\* no pending or running record, and no terminal record that finished less
\* than the TTL ago.
C30_TtlRemovesOnlyExpired ==
    \A j \in Removable(jobs) : Expired(Get(jobs, j))

\* ------------------------------------------------------------------- C31

\* C31: the store never holds more than JOBS_MAX_ITEMS + 1 records; a
\* retention pass run in any reachable state leaves JOBS_MAX_ITEMS at most,
\* so that a create_job run there, which inserts after its pass, leaves
\* JOBS_MAX_ITEMS + 1 at most; and the store grows in no step but a
\* create_job that creates a record, and there by one record over what the
\* retention pass left.
C31_AtMostCapPlusOne ==
    [][/\ Len(jobs) <= JOBS_MAX_ITEMS + 1
       /\ Len(_cleanup_jobs) <= JOBS_MAX_ITEMS
       /\ \A key \in Keys :
             Len(Inserted(_cleanup_jobs, key)) <= JOBS_MAX_ITEMS + 1
       /\ Len(jobs') > Len(jobs) => Creates
       /\ Creates => Len(jobs') = Len(_cleanup_jobs) + 1
       /\ Len(jobs') <= JOBS_MAX_ITEMS + 1]_vars

\* C31 witness: a create_job has answered and the store holds
\* JOBS_MAX_ITEMS + 1 records, which the next retention pass will cut down.
C31_Witness ==
    /\ response.op = "create_job"
    /\ Len(jobs) = JOBS_MAX_ITEMS + 1
    /\ Len(_cleanup_jobs) = JOBS_MAX_ITEMS

\* ------------------------------------------------------------------- C32

\* The records of js with the status asked for (all of them for None),
\* ordered by createdAt descending.
Filtered(js, status) ==
    LET Matches(r) == status = None \/ r.status = status
    IN  SelectSeq(SortedByCreatedDesc(js), Matches)

\* The elements c + 1 .. c + L of S, as far as S goes.
PageOf(S, c, L) ==
    LET n == IF c >= Len(S) THEN 0
             ELSE IF Len(S) - c < L THEN Len(S) - c ELSE L
    IN  [i \in 1..n |-> S[c + i]]

\* The answer is the page at offset c with limit L of S.
AnswersPage(answer, S, c, L) ==
    /\ Len(answer.items) <= L
    /\ Len(answer.items) = Len(PageOf(S, c, L))
    /\ \A i \in 1..Len(answer.items) :
          /\ answer.items[i].jobId = PageOf(S, c, L)[i].jobId
          /\ answer.items[i].status = PageOf(S, c, L)[i].status
          /\ answer.items[i].createdAt = PageOf(S, c, L)[i].createdAt
    /\ answer.nextCursor = IF c + L < Len(S) THEN ToString(c + L) ELSE None
    /\ c >= Len(S) => (answer.items = <<>> /\ answer.nextCursor = None)

\* C32: a list_jobs call that no writer interleaves with answers 200 with
\* the page at its offset and limit of the filtered, createdAt-descending
\* sequence of the store, and with the next offset as nextCursor exactly
\* when records remain beyond the page; a call with no cursor or with the
\* empty cursor works at offset 0.
C32_PageIsSlice ==
    [][/\ (response.op = "none" /\ response'.op = "list_jobs"
              /\ response'.http = 200) =>
             AnswersPage(response', Filtered(jobs', response'.filter),
                         response'.offset, response'.limit)
       /\ ListCall =>
             \A status \in {None} \cup Statuses, limit \in PageLimits,
                cursor \in {None, ""} :
                list_jobs(status, limit, cursor) =>
                   (lst'.offset = 0 /\ response'.offset = 0)]_vars

\* C32 witness: list_jobs has answered with the second of two records and
\* no nextCursor, and (for another call) could answer with the first and
\* nextCursor "1".
C32_Witness ==
    /\ response.op = "list_jobs"
    /\ response.http = 200
    /\ response.offset = 1
    /\ response.limit = 1
    /\ Len(response.items) = 1
    /\ response.nextCursor = None
    /\ Len(Filtered(jobs, response.filter)) = 2

\* ------------------------------------------------------------------- C33

\* The positions in js of the terminal records that carry key.
TerminalWithKey(js, key) ==
    {i \in 1..Len(js) :
        js[i].idempotencyKey = key /\ js[i].status \in Terminal}

\* C33: a create_job with a non-empty key whose retention pass leaves a
\* terminal record with that key in the store answers 200 with the id and
\* the status of that record and its createdAt as acceptedAt, adds no record
\* and hands no task to background_tasks.
C33_ReplayOfTerminal ==
    [][(response.op = "none" /\ response'.op = "create_job"
           /\ Truthy(response'.key)) =>
          \A i \in TerminalWithKey(_cleanup_jobs, response'.key) :
             /\ response'.http = 200
             /\ response'.jobId = _cleanup_jobs[i].jobId
             /\ response'.status = _cleanup_jobs[i].status
             /\ response'.acceptedAt = _cleanup_jobs[i].createdAt
             /\ nextId' = nextId
             /\ bg' = bg
             /\ jobs' = _cleanup_jobs]_vars

\* C33 witness: create_job has answered a replay with the status failed of
\* a record whose task has returned.
C33_Witness ==
    /\ response.op = "create_job"
    /\ response.status = "failed"
    /\ Live(response.jobId)
    /\ Rec(response.jobId).idempotencyKey = response.key
    /\ bg[response.jobId].pc = "finished"

\* ------------------------------------------------------------------- C34

\* C34: a create_job with a non-empty key whose retention pass leaves no
\* record with that key creates a record with an id no record had before,
\* carrying the key, enters it in the index under the key and hands its task
\* to background_tasks, whatever the tasks of earlier records are doing; and
\* a task that comes back from the executor to find its record gone changes
\* neither store nor index.
C34_ResubmitAfterEviction ==
    [][/\ (response.op = "none" /\ response'.op = "create_job"
              /\ Truthy(response'.key)
              /\ \A i \in 1..Len(_cleanup_jobs) :
                    _cleanup_jobs[i].idempotencyKey # response'.key) =>
             /\ response'.jobId = nextId
             /\ nextId' = nextId + 1
             /\ nextId \in Ids(jobs') \ Ids(jobs)
             /\ Get(jobs', nextId).idempotencyKey = response'.key
             /\ Get(jobs', nextId).status = "pending"
             /\ response'.key \in DOMAIN idx'
             /\ idx'[response'.key] = nextId
             /\ bg'[nextId].pc = "queued"
             /\ \A j \in JobIds \ {nextId} : bg'[j] = bg[j]
       /\ \A j \in JobIds :
             (bg[j].pc = "executing" /\ bg'[j] # bg[j] /\ ~Live(j)) =>
                (jobs' = jobs /\ idx' = idx /\ bg'[j].pc = "finished")]_vars

\* C34 witness: create_job has answered with a new record for a key whose
\* earlier record is gone from the store while that record's task is still
\* at the executor.
C34_Witness ==
    /\ response.op = "create_job"
    /\ Truthy(response.key)
    /\ response.jobId = nextId - 1
    /\ idx[response.key] = response.jobId
    /\ \E j \in 1..(response.jobId - 1) :
          /\ ~Live(j)
          /\ bg[j].pc = "executing"
          /\ \A k \in Ids(jobs) \ {response.jobId} :
                Rec(k).idempotencyKey # response.key

\* C34 witness of the late return: the task of a record that is gone has
\* returned, and the later record with a key is in store and index.
C34_ReturnedLate ==
    \E j \in JobIds, k \in Ids(jobs) :
        /\ j < k
        /\ ~Live(j)
        /\ bg[j].pc = "finished"
        /\ Truthy(Rec(k).idempotencyKey)
        /\ idx[Rec(k).idempotencyKey] = k

\* ------------------------------------------------------------------- C35

\* C35: the empty string is never a key of the index, and a create_job
\* with idempotencyKey "" always creates: the record gets an id no record
\* had before, stores "" as its idempotencyKey, its task is handed to
\* background_tasks and the index stays what the retention pass rebuilt,
\* even when records with idempotencyKey "" are already in the store.
C35_EmptyKeyIsNoKey ==
    [][/\ "" \notin DOMAIN idx
       /\ "" \notin DOMAIN idx'
       /\ (response.op = "none" /\ response'.op = "create_job"
              /\ response'.key = "") =>
             /\ response'.http = 200
             /\ response'.jobId = nextId
             /\ response'.status = "pending"
             /\ nextId' = nextId + 1
             /\ nextId \in Ids(jobs') \ Ids(jobs)
             /\ Len(jobs') = Len(_cleanup_jobs) + 1
             /\ Get(jobs', nextId).idempotencyKey = ""
             /\ bg'[nextId].pc = "queued"
             /\ idx' = RebuiltIndex(_cleanup_jobs)]_vars

\* C35 witness: create_job with idempotencyKey "" has answered with a new
\* record while another record storing "" is in the store; both tasks
\* exist and the index holds neither.
C35_Witness ==
    /\ response.op = "create_job"
    /\ response.key = ""
    /\ Live(response.jobId)
    /\ Rec(response.jobId).idempotencyKey = ""
    /\ bg[response.jobId].pc = "queued"
    /\ \E j \in Ids(jobs) \ {response.jobId} :
          /\ Rec(j).idempotencyKey = ""
          /\ bg[j].pc # "none"
    /\ \A k \in DOMAIN idx : idx[k] \notin {j \in Ids(jobs) : Rec(j).idempotencyKey = ""}

\* ------------------------------------------------------------------- C36

\* Record k of js is older than record e: an earlier createdAt, or the same
\* createdAt and an earlier insertion.
OlderIn(js, k, e) ==
    \E a, b \in 1..Len(js) :
        /\ js[a].jobId = k
        /\ js[b].jobId = e
        /\ \/ js[a].createdAt < js[b].createdAt
           \/ js[a].createdAt = js[b].createdAt /\ a < b

\* The retention pass of a create_job leaves at most JOBS_MAX_ITEMS records
\* and the new record is appended to what it left; the capacity step of a
\* pass run now removes a record only together with every older one.
InsertAfterRetention ==
    /\ Creates =>
          /\ Len(_cleanup_jobs) <= JOBS_MAX_ITEMS
          /\ jobs' = Append(_cleanup_jobs, jobs'[Len(jobs')])
          /\ jobs'[Len(jobs')].jobId = nextId
          /\ nextId \notin Ids(jobs)
    /\ \A e \in EvictedForCapacity : \A k \in Ids(AfterTtl) :
          OlderIn(AfterTtl, k, e) => k \in EvictedForCapacity

\* C36 (as claimed): a creating create_job inserts its record after its
\* retention pass, so the pass neither removes that record nor sees it in
\* the count; and in every state the capacity step removes a record only
\* when it also removes every record with an earlier createdAt and every
\* record inserted before it with the same createdAt.
C36_EvictsOldestFirst == [][InsertAfterRetention]_vars

\* C36, in the zones whose UTC offset never changes.
C36_WithoutClockChange ==
    [][tz.dstFrom = NoTime => InsertAfterRetention]_vars

\* C36 witness of the order that is kept: in a zone without a clock change
\* the capacity step removes the earlier-inserted of two records with the
\* same createdAt and leaves a record with a later createdAt.
C36_TieWitness ==
    /\ tz.dstFrom = NoTime
    /\ \E e \in EvictedForCapacity : \E k, m \in Ids(_cleanup_jobs) :
          /\ OlderIn(AfterTtl, e, k)
          /\ Get(jobs, e).createdAt = Get(jobs, k).createdAt
          /\ Get(jobs, e).createdAt < Get(jobs, m).createdAt

\* C36 divergence: the capacity step removes a record and leaves one with a
\* strictly earlier createdAt.
C36_NewerEvictedFirst ==
    \E e \in EvictedForCapacity : \E k \in Ids(_cleanup_jobs) :
        Get(jobs, k).createdAt < Get(jobs, e).createdAt

\* ------------------------------------------------------------------- C37

\* The positions of _process_job inside one of its with blocks.
HeldPositions ==
    {"stamp_started", "mark_error", "mark_finished", "done_finished",
     "done_result"}

\* The tasks, and the requests (0 or 1), inside a with block.
TasksInside == {j \in JobIds : bg[j].pc \in HeldPositions}
RequestsInside == IF req.pc # "idle" THEN 1 ELSE 0

\* Assignments left before the with block at position pc ends.
StepsToRelease(pc) ==
    IF pc \in {"mark_error", "done_finished"} THEN 2
    ELSE IF pc \in {"stamp_started", "mark_finished", "done_result"} THEN 1
    ELSE 0

HolderPosition(l, tasks, request) ==
    IF l.holder = "task" THEN tasks[l.job].pc
    ELSE IF l.holder = "request" THEN request.pc
    ELSE "idle"

\* The holder of the lock can take its next step.
HolderCanStep ==
    /\ \A j \in JobIds : lock = TaskHolds(j) =>
          \/ ENABLED process_job_stamp_started(j)
          \/ ENABLED process_job_mark_error(j)
          \/ ENABLED process_job_mark_finished(j)
          \/ ENABLED process_job_done_finished(j)
          \/ ENABLED process_job_done_result(j)
    /\ lock.holder = "request" =>
          ENABLED cancel_job_mark_error \/ ENABLED cancel_job_mark_finished

\* The step is one of the holder of the lock.
HolderSteps ==
    \/ lock.holder = "task" /\ bg'[lock.job] # bg[lock.job]
    \/ lock.holder = "request" /\ req' # req

\* A step of the reader of list_jobs after its with block.
ReaderStep == lst.pc # "idle" /\ [lst' EXCEPT !.objs = lst.objs] # lst

\* C37: at most one task or request is inside a with block, and the lock
\* is held exactly then, by that one; store and index change only in a step
\* of the holder (which changes its own record only) or, with the lock
\* free, in the with block a handler or task enters, never in a step of the
\* reader of list_jobs after its block, of the clock or of the hand-over of
\* an answer; a step of anyone else leaves the lock with its holder;
\* every step in which a handler answers from its with block, the 404 and
\* 409 answers included, and every step that ends a task, its early exits
\* included, leaves the lock free (the reader of list_jobs answers without
\* the lock and leaves it as it is); and a holder can always step, each
\* step bringing it nearer to the end of its block.
C37_LockDiscipline ==
    [][/\ Cardinality(TasksInside) + RequestsInside <= 1
       /\ (lock = FREE) = (TasksInside = {} /\ RequestsInside = 0)
       /\ \A j \in TasksInside : lock = TaskHolds(j)
       /\ RequestsInside = 1 => lock = RequestHolds(req.job)
       /\ HolderCanStep
       /\ (jobs' # jobs \/ idx' # idx) =>
             /\ now' = now
             /\ ~ReaderStep
             /\ lock = FREE => response = NoResponse
             /\ lock # FREE =>
                   /\ idx' = idx
                   /\ Ids(jobs') = Ids(jobs)
                   /\ \A k \in Ids(jobs) \ {lock.job} :
                         Get(jobs', k) = Get(jobs, k)
                   /\ lock.holder = "task" => bg'[lock.job] # bg[lock.job]
                   /\ lock.holder = "request" => req' # req
       /\ lock # FREE =>
             /\ \A j \in JobIds \ {lock.job} : bg'[j] = bg[j]
             /\ lock.holder = "task" => req' = req
             /\ IF HolderSteps
                THEN \/ lock' = FREE
                     \/ /\ lock' = lock
                        /\ StepsToRelease(HolderPosition(lock', bg', req'))
                              < StepsToRelease(HolderPosition(lock, bg, req))
                ELSE lock' = lock /\ jobs' = jobs /\ idx' = idx
       /\ (response = NoResponse /\ response' # NoResponse) =>
             IF ReaderStep THEN lock' = lock ELSE lock' = FREE
       /\ \A j \in JobIds :
             (bg[j].pc # "finished" /\ bg'[j].pc = "finished") => lock' = FREE]_vars

\* C37 witness: cancel_job is inside its with block, marking the record of
\* a job whose task is at the executor, while list_jobs builds its items
\* outside the lock.
C37_Witness ==
    /\ lock = RequestHolds(req.job)
    /\ req.pc = "mark_error"
    /\ bg[req.job].pc = "executing"
    /\ lst.pc = "items"

\* C37 witness of the error exits: cancel_job has answered 409 and
\* get_job_status 404, each with the lock free.
C37_ErrorExit ==
    /\ lock = FREE
    /\ response.http \in {404, 409}
    /\ \E j \in JobIds : bg[j].pc = "finished"

====
